---- MODULE Spec2Model ----
(***************************************************************************)
(* A model of the delta-merge pipeline: utils.apply_delta, the fold of     *)
(* pipeline.process over the delta files, pipeline.handle_missing and      *)
(* report.build_report.                                                     *)
(*                                                                         *)
(* A DataFrame is a record [columns |-> set of column names,              *)
(* rows |-> sequence of rows], a row being a function from the columns to  *)
(* cell values.  A missing cell (pandas NaN) is the value Null.            *)
(* Identity cells are never Null in the tables enumerated here.            *)
(***************************************************************************)
EXTENDS Integers, Sequences, FiniteSets, TLC

VARIABLES
    base_df,        \* merge harness: the baseline handed to apply_delta
    delta_df,       \* merge harness: the delta batch handed to apply_delta
    merged,         \* merge harness: result of apply_delta(base_df, delta_df)
    remerged,       \* merge harness: result of applying delta_df once more
    mpc,            \* merge harness: position
    pc,                 \* process / build_report: position in the function
    agents,             \* process: the agents table
    contact_centers,    \* process, build_report: the contact_centers table
    service_categories, \* process, build_report: the service_categories table
    interactions,       \* process, build_report: the interactions table
    months_filter,      \* process: the cleaned tokens of args.months
    delta_dir,          \* the file names in <data_dir>/delta, per table
    queue,              \* process: iterate_deltas(table) not yet applied
    applied,            \* history: month codes of the batches applied, per table
    fatal_seen,         \* history: a batch without action column or with an
                        \* unknown action has been read in this run
    written,            \* the final table files written by this run
    grouped             \* build_report: the report

mvars == <<base_df, delta_df, merged, remerged, mpc>>
pvars == <<pc, agents, contact_centers, service_categories, interactions,
           months_filter, delta_dir, queue, applied, fatal_seen, written, grouped>>
vars == <<mvars, pvars>>

----------------------------------------------------------------------------
(* Bounds of the enumerated inputs *)

MaxBaseRows == 2
MaxDeltaRows == 2
MaxFiles == 2
MaxFileRows == 1
MaxReportRows == 2

----------------------------------------------------------------------------
(* Cell values *)

Null == "NaN"
Unknown == "Unknown"
None == "None"

DEFAULT_ACTIONS == {"add", "update", "delete"}

(* str(a).lower().strip() on the action spellings that occur in the model *)
str_lower_strip(a) ==
    CASE a = "add" -> "add"
      [] a = "Update " -> "update"
      [] a = "DELETE" -> "delete"
      [] a = " Add" -> "add"
      [] a = Null -> "nan"
      [] OTHER -> a

SeqsUpTo(S, n) == UNION {[1..k -> S] : k \in 0..n}

Range(s) == {s[i] : i \in DOMAIN s}

----------------------------------------------------------------------------
(* DataFrame primitives used by apply_delta *)

DataFrame(cols, rows) == [columns |-> cols, rows |-> rows]

(* df[col].unique() / the set a Series is tested against by isin *)
ColumnValues(df, col) == {df.rows[i][col] : i \in DOMAIN df.rows}

(* df[~df[id_col].isin(ids)] *)
NotIsin(df, id_col, ids) ==
    DataFrame(df.columns, SelectSeq(df.rows, LAMBDA r : r[id_col] \notin ids))

(* delta[delta["action"] == a].drop(columns=["action"]) *)
RowsWithAction(delta, a) ==
    LET sel == SelectSeq(delta.rows, LAMBDA r : r["action"] = a)
        cols == delta.columns \ {"action"}
    IN DataFrame(cols, [i \in DOMAIN sel |-> [c \in cols |-> sel[i][c]]])

(* pd.concat([a, b], ignore_index=True): union of the columns, NaN where a *)
(* frame lacks a column                                                    *)
Concat(a, b) ==
    LET cols == a.columns \cup b.columns
        Widen(r) == [c \in cols |-> IF c \in DOMAIN r THEN r[c] ELSE Null]
    IN DataFrame(cols, [i \in DOMAIN a.rows |-> Widen(a.rows[i])]
                        \o [i \in DOMAIN b.rows |-> Widen(b.rows[i])])

(* df.fillna('Unknown'): every NaN cell of the whole frame *)
Fillna(df) ==
    DataFrame(df.columns,
              [i \in DOMAIN df.rows |->
                  [c \in DOMAIN df.rows[i] |->
                      IF df.rows[i][c] = Null THEN Unknown ELSE df.rows[i][c]]])

Raised(kind) == [raised |-> TRUE, error |-> kind]
Returned(df) == [raised |-> FALSE, df |-> df]

(* delta["action"].astype(str).str.lower().str.strip() *)
NormalizeActions(delta) ==
    DataFrame(delta.columns,
              [i \in DOMAIN delta.rows |->
                  [delta.rows[i] EXCEPT !["action"] = str_lower_strip(@)]])

(* "drop rows being updated, append new data" -- the same three lines serve *)
(* the Update and the Add step                                              *)
DropAndAppend(out, incoming, id_col) ==
    IF incoming.rows # <<>>
    THEN Fillna(Concat(NotIsin(out, id_col, ColumnValues(incoming, id_col)), incoming))
    ELSE out

(* "if deletes: out = out[~out[id_col].isin(deletes)]" *)
DeleteStep(out, deletes, id_col) ==
    IF deletes # {} THEN NotIsin(out, id_col, deletes) ELSE out

(* Faulty variants of apply_delta, each one slip away from the code below *)

\* the Add step appends without dropping the rows it collides with
apply_delta_AppendOnly(base_df_, delta_df_, id_col) ==
    IF "action" \notin delta_df_.columns THEN Raised("ValueError")
    ELSE LET delta == NormalizeActions(delta_df_)
         IN IF ColumnValues(delta, "action") \ DEFAULT_ACTIONS # {}
            THEN Raised("ValueError")
            ELSE IF id_col \notin delta.columns THEN Raised("KeyError")
            ELSE LET adds == RowsWithAction(delta, "add")
                     updates == RowsWithAction(delta, "update")
                     deletes == ColumnValues(
                         DataFrame(delta.columns,
                             SelectSeq(delta.rows, LAMBDA r : r["action"] = "delete")),
                         id_col)
                     out1 == DeleteStep(base_df_, deletes, id_col)
                     out2 == DropAndAppend(out1, updates, id_col)
                     out3 == IF adds.rows # <<>> THEN Fillna(Concat(out2, adds)) ELSE out2
                 IN Returned(out3)

\* the deletes are read off the raw action column, before normalisation
apply_delta_RawDeletes(base_df_, delta_df_, id_col) ==
    IF "action" \notin delta_df_.columns THEN Raised("ValueError")
    ELSE LET delta == NormalizeActions(delta_df_)
         IN IF ColumnValues(delta, "action") \ DEFAULT_ACTIONS # {}
            THEN Raised("ValueError")
            ELSE IF id_col \notin delta.columns THEN Raised("KeyError")
            ELSE LET adds == RowsWithAction(delta, "add")
                     updates == RowsWithAction(delta, "update")
                     deletes == ColumnValues(
                         DataFrame(delta.columns,
                             SelectSeq(delta_df_.rows, LAMBDA r : r["action"] = "delete")),
                         id_col)
                     out1 == DeleteStep(base_df_, deletes, id_col)
                     out2 == DropAndAppend(out1, updates, id_col)
                     out3 == DropAndAppend(out2, adds, id_col)
                 IN Returned(out3)

\* the Add step runs before the Update step
apply_delta_AddBeforeUpdate(base_df_, delta_df_, id_col) ==
    IF "action" \notin delta_df_.columns THEN Raised("ValueError")
    ELSE LET delta == NormalizeActions(delta_df_)
         IN IF ColumnValues(delta, "action") \ DEFAULT_ACTIONS # {}
            THEN Raised("ValueError")
            ELSE IF id_col \notin delta.columns THEN Raised("KeyError")
            ELSE LET adds == RowsWithAction(delta, "add")
                     updates == RowsWithAction(delta, "update")
                     deletes == ColumnValues(
                         DataFrame(delta.columns,
                             SelectSeq(delta.rows, LAMBDA r : r["action"] = "delete")),
                         id_col)
                     out1 == DeleteStep(base_df_, deletes, id_col)
                     out2 == DropAndAppend(out1, adds, id_col)
                     out3 == DropAndAppend(out2, updates, id_col)
                 IN Returned(out3)

\* fillna is applied to the incoming rows only, not to the concatenated frame
apply_delta_FillIncomingOnly(base_df_, delta_df_, id_col) ==
    IF "action" \notin delta_df_.columns THEN Raised("ValueError")
    ELSE LET delta == NormalizeActions(delta_df_)
         IN IF ColumnValues(delta, "action") \ DEFAULT_ACTIONS # {}
            THEN Raised("ValueError")
            ELSE IF id_col \notin delta.columns THEN Raised("KeyError")
            ELSE LET adds == RowsWithAction(delta, "add")
                     updates == RowsWithAction(delta, "update")
                     deletes == ColumnValues(
                         DataFrame(delta.columns,
                             SelectSeq(delta.rows, LAMBDA r : r["action"] = "delete")),
                         id_col)
                     Step(out, incoming) ==
                         IF incoming.rows # <<>>
                         THEN Concat(NotIsin(out, id_col, ColumnValues(incoming, id_col)),
                                     Fillna(incoming))
                         ELSE out
                     out1 == DeleteStep(base_df_, deletes, id_col)
                     out2 == Step(out1, updates)
                     out3 == Step(out2, adds)
                 IN Returned(out3)

\* no validation: a frame without action column is taken as an empty batch,
\* rows with an unknown action are ignored
apply_delta_NoValidation(base_df_, delta_df_, id_col) ==
    IF "action" \notin delta_df_.columns THEN Returned(base_df_)
    ELSE LET delta == NormalizeActions(delta_df_)
         IN IF id_col \notin delta.columns THEN Raised("KeyError")
            ELSE LET adds == RowsWithAction(delta, "add")
                     updates == RowsWithAction(delta, "update")
                     deletes == ColumnValues(
                         DataFrame(delta.columns,
                             SelectSeq(delta.rows, LAMBDA r : r["action"] = "delete")),
                         id_col)
                     out1 == DeleteStep(base_df_, deletes, id_col)
                     out2 == DropAndAppend(out1, updates, id_col)
                     out3 == DropAndAppend(out2, adds, id_col)
                 IN Returned(out3)

(* utils.apply_delta *)
apply_delta(base_df_, delta_df_, id_col) ==
    IF "action" \notin delta_df_.columns THEN Raised("ValueError")
    ELSE LET delta == NormalizeActions(delta_df_)
         IN IF ColumnValues(delta, "action") \ DEFAULT_ACTIONS # {}
            THEN Raised("ValueError")
            ELSE IF id_col \notin delta.columns THEN Raised("KeyError")
            ELSE LET adds == RowsWithAction(delta, "add")
                     updates == RowsWithAction(delta, "update")
                     deletes == ColumnValues(
                         DataFrame(delta.columns,
                             SelectSeq(delta.rows, LAMBDA r : r["action"] = "delete")),
                         id_col)
                     out1 == DeleteStep(base_df_, deletes, id_col)
                     out2 == DropAndAppend(out1, updates, id_col)
                     out3 == DropAndAppend(out2, adds, id_col)
                 IN Returned(out3)

----------------------------------------------------------------------------
(* Inputs of the merge harness: one dimension table, agents *)

AgentIds == {"A1", "A2"}
BaseNames == {Null, "x"}
DeltaNames == {Null, "y"}
RawActions == {"add", "Update ", "DELETE", "remove"}
AgentCols == {"agent_id", "name"}

BaseRows == [agent_id : AgentIds, name : BaseNames]
DeltaRows == [agent_id : AgentIds, name : DeltaNames, action : RawActions]

BaseTables == {DataFrame(AgentCols, s) : s \in SeqsUpTo(BaseRows, MaxBaseRows)}
DeltaTables ==
    {DataFrame(AgentCols \cup {"action"}, s) : s \in SeqsUpTo(DeltaRows, MaxDeltaRows)}
    \cup {DataFrame(AgentCols, s) : s \in SeqsUpTo([agent_id : AgentIds, name : DeltaNames], 1)}

MergeInit ==
    /\ base_df \in BaseTables
    /\ delta_df \in DeltaTables
    /\ merged = None
    /\ remerged = None
    /\ mpc = "start"
    /\ pc = None /\ agents = None /\ contact_centers = None
    /\ service_categories = None /\ interactions = None
    /\ months_filter = None /\ delta_dir = None /\ queue = None
    /\ applied = None /\ fatal_seen = FALSE /\ written = None /\ grouped = None

(* out = apply_delta(base_df, delta_df, "agent_id"); base_df is copied, never written *)
MergeOnce ==
    /\ mpc = "start"
    /\ merged' = apply_delta(base_df, delta_df, "agent_id")
    /\ mpc' = IF merged'.raised THEN "raised" ELSE "merged"
    /\ UNCHANGED <<base_df, delta_df, remerged, pvars>>

(* apply_delta(out, delta_df, "agent_id"): the same batch folded in again *)
MergeAgain ==
    /\ mpc = "merged"
    /\ remerged' = apply_delta(merged.df, delta_df, "agent_id")
    /\ mpc' = "remerged"
    /\ UNCHANGED <<base_df, delta_df, merged, pvars>>

MergeNext == MergeOnce \/ MergeAgain

SpecMerge == MergeInit /\ [][MergeNext]_vars

----------------------------------------------------------------------------
(* File names.  A delta file of a table is <table>_<star>.csv, <star> being *)
(* what the glob pattern's * matched; a star is a sequence of characters.   *)

TableNames == <<"agents", "contact_centers", "service_categories", "interactions">>
Tables == Range(TableNames)

IdCol ==
    [t \in Tables |->
        CASE t = "agents" -> "agent_id"
          [] t = "contact_centers" -> "contact_center_id"
          [] t = "service_categories" -> "category_id"
          [] t = "interactions" -> "interaction_id"]

Digits == {"0", "1", "2", "3", "4", "5", "6", "7", "8", "9"}

(* the code point of a character: what Python's string comparison compares *)
Ord(c) ==
    CASE c = "." -> 46
      [] c = "0" -> 48 [] c = "1" -> 49 [] c = "2" -> 50 [] c = "3" -> 51
      [] c = "4" -> 52 [] c = "5" -> 53 [] c = "6" -> 54 [] c = "7" -> 55
      [] c = "8" -> 56 [] c = "9" -> 57
      [] c = "_" -> 95
      [] c = "b" -> 98 [] c = "c" -> 99 [] c = "s" -> 115 [] c = "v" -> 118
      [] c = "x" -> 120

Stars ==
    { <<"2", "0", "2", "5", "0", "2">>,
      <<"2", "0", "2", "5", "0", "3">>,
      <<"b", "_", "2", "0", "2", "5", "0", "2">>,
      <<"x">> }

(* the part of the path that differs between two delta files of one table *)
PathTail(star) == star \o <<".", "c", "s", "v">>

(* a < b on Python strings *)
RECURSIVE StrLess(_, _)
StrLess(a, b) ==
    IF a = <<>> THEN b # <<>>
    ELSE IF b = <<>> THEN FALSE
    ELSE IF Head(a) # Head(b) THEN Ord(Head(a)) < Ord(Head(b))
    ELSE StrLess(Tail(a), Tail(b))

(* sorted(glob.glob(pattern)) for the files of one table *)
SortedFiles(stars) ==
    CHOOSE s \in [1..Cardinality(stars) -> stars] :
        \A i, j \in DOMAIN s : i < j => StrLess(PathTail(s[i]), PathTail(s[j]))

(* the None that get_month_from_filename returns, among character sequences *)
NoMonth == <<>>

(* utils.get_month_from_filename: the last "_"-separated part of the name   *)
(* without extension, if it is six digits; the table name ends with "_"     *)
(* before the star, so the last part lies within the star                   *)
get_month_from_filename(star) ==
    LET us == {i \in DOMAIN star : star[i] = "_"}
        last == IF us = {} THEN 0 ELSE CHOOSE i \in us : \A j \in us : j <= i
        part == SubSeq(star, last + 1, Len(star))
    IN IF part # <<>> /\ (\A i \in DOMAIN part : part[i] \in Digits) /\ Len(part) = 6
       THEN part
       ELSE NoMonth

(* process.iterate_deltas: the (month_code, file_path) pairs of one table *)
iterate_deltas(files, filter) ==
    SelectSeq([i \in DOMAIN files |->
                  [month |-> get_month_from_filename(files[i]), path |-> files[i]]],
              LAMBDA f : ~(filter # {} /\ f.month \notin filter))

----------------------------------------------------------------------------
(* pipeline.handle_missing *)

SetColumn(df, col, Keep(_)) ==
    DataFrame(df.columns,
              [i \in DOMAIN df.rows |->
                  IF Keep(df.rows[i][col]) THEN df.rows[i]
                  ELSE [df.rows[i] EXCEPT ![col] = Unknown]])

\* only the agent references are resolved
handle_missing_AgentsOnly(interactions_, agents_, contact_centers_, service_categories_) ==
    LET final_agents == ColumnValues(agents_, "agent_id")
    IN SetColumn(interactions_, "agent_id", LAMBDA v : v \in final_agents)

handle_missing(interactions_, agents_, contact_centers_, service_categories_) ==
    LET final_agents == ColumnValues(agents_, "agent_id")
        final_contact_centers == ColumnValues(contact_centers_, "contact_center_id")
        final_service_categories == ColumnValues(service_categories_, "category_id")
        i1 == SetColumn(interactions_, "agent_id", LAMBDA v : v \in final_agents)
        i2 == SetColumn(i1, "contact_center_id", LAMBDA v : v \in final_contact_centers)
        i3 == SetColumn(i2, "category_id", LAMBDA v : v \in final_service_categories)
    IN i3

----------------------------------------------------------------------------
(* Timestamps *)

UtcStamp == "2025-02-01T03:00:00Z"
EstStamp == "2025-01-31 22:00:00-05:00"

Parses(v) == v \in {UtcStamp, EstStamp, Null}

(* pipeline.convert_utc_to_est on one cell; NaN becomes NaT *)
convert_utc_to_est(v) ==
    CASE v = UtcStamp -> EstStamp
      [] OTHER -> v

(* one "if col in interactions.columns: try ... except" block of process *)
ConvertColumn(df, col) ==
    IF col \in df.columns /\ \A v \in ColumnValues(df, col) : Parses(v)
    THEN DataFrame(df.columns,
                   [i \in DOMAIN df.rows |->
                       [df.rows[i] EXCEPT ![col] = convert_utc_to_est(@)]])
    ELSE df

----------------------------------------------------------------------------
(* The inputs of a pipeline run *)

Code202502 == <<"2", "0", "2", "5", "0", "2">>
Code202503 == <<"2", "0", "2", "5", "0", "3">>

MonthsFilters == {{}, {Code202502}}

InitialAgents ==
    DataFrame(AgentCols, <<[agent_id |-> "A1", name |-> "x"],
                           [agent_id |-> "A2", name |-> "x"]>>)
InitialContactCenters ==
    DataFrame({"contact_center_id", "contact_center_name"},
              <<[contact_center_id |-> "C1", contact_center_name |-> "Boston"]>>)
InitialServiceCategories ==
    DataFrame({"category_id", "department"},
              <<[category_id |-> "S1", department |-> "Billing"]>>)

InteractionCols ==
    {"interaction_id", "agent_id", "contact_center_id", "category_id", "interaction_end"}

InitialInteractions ==
    {DataFrame(InteractionCols, <<r>>) :
        r \in [interaction_id : {"I1"}, agent_id : {"A1", "A9"},
               contact_center_id : {"C1"}, category_id : {Null},
               interaction_end : {UtcStamp}]}
    \cup {DataFrame(InteractionCols \ {"interaction_id"}, <<>>)}

FileActions == {"add", "DELETE", "remove"}

FileRows(t) ==
    CASE t = "agents" ->
            [agent_id : AgentIds, name : {"y"}, action : FileActions]
      [] t = "contact_centers" ->
            [contact_center_id : {"C1"}, contact_center_name : {Null},
             action : FileActions]
      [] t = "service_categories" ->
            [category_id : {"S1"}, department : {Null}, action : FileActions]
      [] t = "interactions" ->
            [interaction_id : {"I1", "I2"}, agent_id : {"A2"},
             contact_center_id : {"C1"}, category_id : {"S1"},
             interaction_end : {UtcStamp}, action : FileActions]

FileCols(t) ==
    CASE t = "agents" -> AgentCols
      [] t = "contact_centers" -> {"contact_center_id", "contact_center_name"}
      [] t = "service_categories" -> {"category_id", "department"}
      [] t = "interactions" -> InteractionCols

(* what read_table(path) may return for a delta file of table t *)
FileContents(t) ==
    {DataFrame(FileCols(t) \cup {"action"}, s) : s \in SeqsUpTo(FileRows(t), MaxFileRows)}
    \cup {DataFrame(FileCols(t), <<>>)}

DeltaDirs ==
    {d \in [Tables -> SUBSET Stars] :
        Cardinality({<<t, f>> \in Tables \X Stars : f \in d[t]}) <= MaxFiles}

\* a batch on which apply_delta must raise
Fatal(content) ==
    \/ "action" \notin content.columns
    \/ \E i \in DOMAIN content.rows :
          str_lower_strip(content.rows[i]["action"]) \notin DEFAULT_ACTIONS

----------------------------------------------------------------------------
(* pipeline.process *)

ProcessInit ==
    /\ pc = "load"
    /\ agents = InitialAgents
    /\ contact_centers = InitialContactCenters
    /\ service_categories = InitialServiceCategories
    /\ interactions \in InitialInteractions
    /\ months_filter \in MonthsFilters
    /\ delta_dir \in DeltaDirs
    /\ queue = [t \in Tables |-> <<>>]
    /\ applied = [t \in Tables |-> <<>>]
    /\ fatal_seen = FALSE
    /\ written = <<>>
    /\ grouped = None
    /\ base_df = None /\ delta_df = None /\ merged = None /\ remerged = None
    /\ mpc = None

TableOf(t) ==
    CASE t = "agents" -> agents
      [] t = "contact_centers" -> contact_centers
      [] t = "service_categories" -> service_categories
      [] t = "interactions" -> interactions

(* STEP 1: the initial tables are read and their identity columns checked *)
LoadInitial ==
    /\ pc = "load"
    /\ pc' = IF \E t \in Tables : IdCol[t] \notin TableOf(t).columns
             THEN "aborted" ELSE "list"
    /\ UNCHANGED <<agents, contact_centers, service_categories, interactions,
                   months_filter, delta_dir, queue, applied, fatal_seen, written,
                   grouped, mvars>>

(* list_delta_files and the four iterate_deltas calls, which read only the  *)
(* listing and the filter                                                   *)
ListDeltaFiles ==
    /\ pc = "list"
    /\ queue' = [t \in Tables |->
                    iterate_deltas(SortedFiles(delta_dir[t]), months_filter)]
    /\ pc' = "agents"
    /\ UNCHANGED <<agents, contact_centers, service_categories, interactions,
                   months_filter, delta_dir, applied, fatal_seen, written,
                   grouped, mvars>>

(* one iteration of "for month, path in iterate_deltas(t)" *)
ApplyStep(t, content, result) ==
    /\ pc = t
    /\ queue[t] # <<>>
    /\ content \in FileContents(t)
    /\ result = apply_delta(TableOf(t), content, IdCol[t])
    /\ fatal_seen' = (fatal_seen \/ Fatal(content))
    /\ IF result.raised
       THEN /\ pc' = "aborted"
            /\ UNCHANGED <<queue, applied>>
       ELSE /\ pc' = pc
            /\ queue' = [queue EXCEPT ![t] = Tail(@)]
            /\ applied' = [applied EXCEPT ![t] = Append(@, Head(queue[t]).month)]
    /\ UNCHANGED <<months_filter, delta_dir, written, grouped, mvars>>

ApplyAgentsDelta ==
    \E content \in FileContents("agents") :
        LET result == apply_delta(agents, content, "agent_id")
        IN /\ ApplyStep("agents", content, result)
           /\ agents' = IF result.raised THEN agents ELSE result.df
           /\ UNCHANGED <<contact_centers, service_categories, interactions>>

ApplyContactCentersDelta ==
    \E content \in FileContents("contact_centers") :
        LET result == apply_delta(contact_centers, content, "contact_center_id")
        IN /\ ApplyStep("contact_centers", content, result)
           /\ contact_centers' = IF result.raised THEN contact_centers ELSE result.df
           /\ UNCHANGED <<agents, service_categories, interactions>>

ApplyServiceCategoriesDelta ==
    \E content \in FileContents("service_categories") :
        LET result == apply_delta(service_categories, content, "category_id")
        IN /\ ApplyStep("service_categories", content, result)
           /\ service_categories' = IF result.raised THEN service_categories ELSE result.df
           /\ UNCHANGED <<agents, contact_centers, interactions>>

ApplyInteractionsDelta ==
    \E content \in FileContents("interactions") :
        LET result == apply_delta(interactions, content, "interaction_id")
        IN /\ ApplyStep("interactions", content, result)
           /\ interactions' = IF result.raised THEN interactions ELSE result.df
           /\ UNCHANGED <<agents, contact_centers, service_categories>>

NextAfter(t) ==
    CASE t = "agents" -> "contact_centers"
      [] t = "contact_centers" -> "service_categories"
      [] t = "service_categories" -> "interactions"
      [] t = "interactions" -> "handle_missing"

(* a for loop over the batches of a table ends *)
EndOfLoop ==
    /\ pc \in Tables
    /\ queue[pc] = <<>>
    /\ pc' = NextAfter(pc)
    /\ UNCHANGED <<agents, contact_centers, service_categories, interactions,
                   months_filter, delta_dir, queue, applied, fatal_seen, written,
                   grouped, mvars>>

(* interactions = handle_missing(interactions, agents, contact_centers, ...) *)
HandleMissing ==
    /\ pc = "handle_missing"
    /\ interactions' =
          handle_missing(interactions, agents, contact_centers, service_categories)
    /\ pc' = "timestamps"
    /\ UNCHANGED <<agents, contact_centers, service_categories, months_filter,
                   delta_dir, queue, applied, fatal_seen, written, grouped, mvars>>

(* STEP 3: the four timestamp columns, each converted if present and parseable *)
ConvertTimestamps ==
    /\ pc = "timestamps"
    /\ interactions' =
          ConvertColumn(
            ConvertColumn(
              ConvertColumn(
                ConvertColumn(interactions, "timestamp"),
                "interaction_start"),
              "agent_resolution_timestamp"),
            "interaction_end")
    /\ pc' = "save"
    /\ UNCHANGED <<agents, contact_centers, service_categories, months_filter,
                   delta_dir, queue, applied, fatal_seen, written, grouped, mvars>>

(* STEP 4: one save_table call; the four are made in the order of TableNames *)
SaveTable ==
    /\ pc = "save"
    /\ Len(written) < Len(TableNames)
    /\ LET t == TableNames[Len(written) + 1]
       IN written' = Append(written, [name |-> t, df |-> TableOf(t)])
    /\ pc' = IF Len(written') = Len(TableNames) THEN "done" ELSE "save"
    /\ UNCHANGED <<agents, contact_centers, service_categories, interactions,
                   months_filter, delta_dir, queue, applied, fatal_seen,
                   grouped, mvars>>

ProcessNext ==
    \/ LoadInitial
    \/ ListDeltaFiles
    \/ ApplyAgentsDelta
    \/ ApplyContactCentersDelta
    \/ ApplyServiceCategoriesDelta
    \/ ApplyInteractionsDelta
    \/ EndOfLoop
    \/ HandleMissing
    \/ ConvertTimestamps
    \/ SaveTable

SpecProcess == ProcessInit /\ [][ProcessNext]_vars

----------------------------------------------------------------------------
(* report.build_report *)

FebStamp == "2025-02-10 09:00:00-05:00"

(* astype(str).str[:7] on the cell values that occur in the model *)
MonthOf(v) ==
    CASE v = EstStamp -> "2025-01"
      [] v = FebStamp -> "2025-02"
      [] v = UtcStamp -> "2025-02"
      [] v = Null -> "nan"
      [] OTHER -> v

(* channel.str.lower().eq("phone").astype(int) *)
IsCall(channel) == IF channel \in {"phone", "Phone", "PHONE"} THEN 1 ELSE 0

RECURSIVE Flatten(_)
Flatten(ss) == IF ss = <<>> THEN <<>> ELSE Head(ss) \o Flatten(Tail(ss))

(* left.merge(right[[key, attr]], on=key, how="left"): one output row per    *)
(* matching right row, one row with a NaN attribute when nothing matches     *)
LeftMerge(left, right, key, attr) ==
    LET Extend(r, v) == [c \in DOMAIN r \cup {attr} |-> IF c = attr THEN v ELSE r[c]]
        Matches(r) == SelectSeq(right.rows, LAMBDA q : q[key] = r[key])
        Joined(r) ==
            IF Matches(r) = <<>> THEN <<Extend(r, Null)>>
            ELSE [k \in DOMAIN Matches(r) |-> Extend(r, Matches(r)[k][attr])]
    IN DataFrame(left.columns \cup {attr},
                 Flatten([i \in DOMAIN left.rows |-> Joined(left.rows[i])]))

RECURSIVE SumSeq(_)
SumSeq(s) == IF s = <<>> THEN 0 ELSE Head(s) + SumSeq(Tail(s))

build_report(contact_centers_, service_categories_, interactions_) ==
    LET withcols ==
            DataFrame(interactions_.columns \cup {"month", "is_call"},
                [i \in DOMAIN interactions_.rows |->
                    [c \in DOMAIN interactions_.rows[i] \cup {"month", "is_call"} |->
                        CASE c = "month" -> MonthOf(interactions_.rows[i]["interaction_end"])
                          [] c = "is_call" -> IsCall(interactions_.rows[i]["channel"])
                          [] OTHER -> interactions_.rows[i][c]]])
        j1 == LeftMerge(withcols, contact_centers_, "contact_center_id", "contact_center_name")
        j2 == LeftMerge(j1, service_categories_, "category_id", "department")
        Key(r) == <<r["month"], r["contact_center_name"], r["department"]>>
        keys == {Key(j2.rows[i]) : i \in DOMAIN j2.rows}
        Group(k) == SelectSeq(j2.rows, LAMBDA r : Key(r) = k)
    IN {[month |-> k[1], contact_center_name |-> k[2], department |-> k[3],
         total_interactions |->
             Len(SelectSeq(Group(k), LAMBDA r : r["interaction_id"] # Null)),
         total_calls |-> SumSeq([i \in DOMAIN Group(k) |-> Group(k)[i]["is_call"]]),
         total_call_duration |->
             SumSeq([i \in DOMAIN Group(k) |-> Group(k)[i]["call_duration_minutes"]])]
        : k \in keys}

(* The final tables build_report may find in ./output *)

ReportInteractionCols ==
    {"interaction_id", "contact_center_id", "category_id", "channel",
     "interaction_end", "call_duration_minutes"}

ReportInteractionRows ==
    [interaction_id : {"I1", "I2"}, contact_center_id : {"C1", Unknown},
     category_id : {"S1"}, channel : {"Phone", "chat"},
     interaction_end : {EstStamp, FebStamp}, call_duration_minutes : {5, 7}]

FinalInteractions ==
    {DataFrame(ReportInteractionCols, s) :
        s \in SeqsUpTo(ReportInteractionRows, MaxReportRows)}
    \cup {DataFrame(ReportInteractionCols \ {"interaction_end"}, <<>>)}

FinalContactCenters ==
    {DataFrame({"contact_center_id", "contact_center_name"}, s) :
        s \in SeqsUpTo([contact_center_id : {"C1"},
                        contact_center_name : {"Boston", "Austin"}], MaxReportRows)}

FinalServiceCategories ==
    {DataFrame({"category_id", "department"}, s) :
        s \in SeqsUpTo([category_id : {"S1"}, department : {"Billing"}], MaxReportRows)}

ReportInit ==
    /\ pc = "read_final"
    /\ contact_centers \in FinalContactCenters
    /\ service_categories \in FinalServiceCategories
    /\ interactions \in FinalInteractions
    /\ grouped = None
    /\ agents = None /\ months_filter = None /\ delta_dir = None /\ queue = None
    /\ applied = None /\ fatal_seen = FALSE /\ written = None
    /\ base_df = None /\ delta_df = None /\ merged = None /\ remerged = None
    /\ mpc = None

(* build_report: the column check, then join, group and aggregate *)
BuildReport ==
    /\ pc = "read_final"
    /\ IF "interaction_end" \notin interactions.columns
       THEN /\ pc' = "aborted"
            /\ UNCHANGED grouped
       ELSE /\ grouped' = build_report(contact_centers, service_categories, interactions)
            /\ pc' = "reported"
    /\ UNCHANGED <<agents, contact_centers, service_categories, interactions,
                   months_filter, delta_dir, queue, applied, fatal_seen, written, mvars>>

ReportNext == BuildReport

SpecReport == ReportInit /\ [][ReportNext]_vars

----------------------------------------------------------------------------
(* Vocabulary of the merge claims *)

Merged == mpc \in {"merged", "remerged"}

\* a batch apply_delta accepts: an action column, every action one of the three
ValidBatch ==
    /\ "action" \in delta_df.columns
    /\ ColumnValues(NormalizeActions(delta_df), "action") \subseteq DEFAULT_ACTIONS

\* the batch as apply_delta sees it once the action column is normalised
Batch == IF "action" \in delta_df.columns THEN NormalizeActions(delta_df).rows ELSE <<>>

BatchIds(a) == {Batch[i]["agent_id"] : i \in {j \in DOMAIN Batch : Batch[j]["action"] = a}}

UpsertIds == BatchIds("add") \cup BatchIds("update")

NoIdentityTwice ==
    \A i, j \in DOMAIN Batch : Batch[i]["agent_id"] = Batch[j]["agent_id"] => i = j

RowsOfId(df, id) == SelectSeq(df.rows, LAMBDA r : r["agent_id"] = id)

\* a batch row as a table row: the action column dropped
AsRow(d) == [c \in DOMAIN d \ {"action"} |-> d[c]]

Filled(r) == [c \in DOMAIN r |-> IF r[c] = Null THEN Unknown ELSE r[c]]

\* the batch's rows of one action and one identity, in file order, as table rows
BatchRowsOf(a, id) ==
    LET sel == SelectSeq(Batch, LAMBDA d : d["action"] = a /\ d["agent_id"] = id)
    IN [i \in DOMAIN sel |-> AsRow(sel[i])]

\* the last add-or-update row of the batch for an identity, in file order
LastUpsertOf(id) ==
    LET sel == SelectSeq(Batch, LAMBDA d : d["action"] \in {"add", "update"}
                                           /\ d["agent_id"] = id)
    IN AsRow(sel[Len(sel)])

\* the baseline rows whose identity no row of the batch mentions, in order
UntouchedRows ==
    SelectSeq(base_df.rows,
              LAMBDA r : \A i \in DOMAIN Batch : Batch[i]["agent_id"] # r["agent_id"])

UntouchedIds == {UntouchedRows[i]["agent_id"] : i \in DOMAIN UntouchedRows}

\* the rows of the merged table that carry an untouched identity, in order
UntouchedInMerged ==
    SelectSeq(merged.df.rows, LAMBDA r : r["agent_id"] \in UntouchedIds)

----------------------------------------------------------------------------
(* C1: idempotence.  For a valid batch in which no identity occurs in more *)
(* than one row, applying the batch to the merged table once more returns  *)
(* the merged table again: same rows in the same order, same cell values.  *)
C1_Idempotent ==
    (mpc \in {"merged", "remerged"} /\ ValidBatch /\ NoIdentityTwice)
        => (mpc = "remerged" => (~remerged.raised /\ remerged.df = merged.df))

\* a two-row batch (an update of a baseline identity and an add) that changed
\* the baseline and was folded in twice
C1_Witness ==
    /\ mpc = "remerged"
    /\ NoIdentityTwice
    /\ BatchIds("add") # {}
    /\ BatchIds("update") \cap ColumnValues(base_df, "agent_id") # {}
    /\ merged.df # base_df
    /\ remerged.df = merged.df

C9_LastInFileOrderSurvives ==
    (mpc # "start" /\ ValidBatch) =>
        \A id \in BatchIds("add") \cap BatchIds("update") :
            /\ ~merged.raised
            /\ RowsOfId(merged.df, id) = <<Filled(LastUpsertOf(id))>>

(* C9 amended: an identity under both add and update in one batch does not *)
(* fail the merge, its baseline rows and its update rows are removed, and  *)
(* the rows that survive for it are the batch's add rows (unset cells      *)
(* filled with "Unknown"), whether the add comes before or after the       *)
(* update in the file.                                                     *)
C9_AddRowsSurvive ==
    (mpc # "start" /\ ValidBatch) =>
        \A id \in BatchIds("add") \cap BatchIds("update") :
            /\ ~merged.raised
            /\ RowsOfId(merged.df, id)
                 = [i \in DOMAIN BatchRowsOf("add", id) |-> Filled(BatchRowsOf("add", id)[i])]

\* the add row comes first in the file, the update row of the same baseline
\* identity last, and the row that survived is the add row
C9_Witness ==
    /\ mpc = "merged"
    /\ Len(Batch) = 2
    /\ Batch[1]["action"] = "add" /\ Batch[2]["action"] = "update"
    /\ Batch[1]["agent_id"] = Batch[2]["agent_id"]
    /\ Batch[1]["name"] # Batch[2]["name"]
    /\ Batch[1]["agent_id"] \in ColumnValues(base_df, "agent_id")
    /\ RowsOfId(merged.df, Batch[1]["agent_id"]) = <<Filled(AsRow(Batch[1]))>>

(* C10 as stated: every baseline row whose identity no row of the batch    *)
(* mentions is in the merged table with all its cells unchanged, unset     *)
(* cells included, and the baseline passed in is not modified.             *)
C10_FrameState ==
    Merged => UntouchedInMerged = UntouchedRows

(* C10 as stated, both halves: the frame of the merged table in every      *)
(* state, and no step changes the baseline passed in.                      *)
C10_Frame == [](C10_FrameState) /\ [][base_df' = base_df]_vars

(* C10 amended: the baseline rows whose identity no row of the batch       *)
(* mentions are in the merged table, in their order; their set cells are   *)
(* unchanged; their unset cells are unchanged when the batch has no add    *)
(* and no update row, and are "Unknown" when it has one.  The baseline     *)
(* passed in is not modified.                                              *)
C10_FrameFilledState ==
    Merged =>
        UntouchedInMerged =
            IF UpsertIds = {} THEN UntouchedRows
            ELSE [i \in DOMAIN UntouchedRows |-> Filled(UntouchedRows[i])]

(* C10 amended, both halves: the frame with filled cells in every state,   *)
(* and no step changes the baseline passed in.                             *)
C10_FrameFilled == [](C10_FrameFilledState) /\ [][base_df' = base_df]_vars

\* an untouched baseline row with an unset cell went through a batch that
\* upserts another identity, and a fully set untouched row is kept as it was
C10_Witness ==
    /\ mpc = "merged"
    /\ UpsertIds # {}
    /\ \E i \in DOMAIN UntouchedRows : UntouchedRows[i]["name"] = Null
    /\ \E i \in DOMAIN UntouchedInMerged : UntouchedInMerged[i]["name"] = Unknown

----------------------------------------------------------------------------
(* Vocabulary of the remaining claims *)

UniqueIds(df, id_col) ==
    \A i, j \in DOMAIN df.rows : df.rows[i][id_col] = df.rows[j][id_col] => i = j

\* the sum of total_interactions over the rows of a report
RECURSIVE TotalInteractions(_)
TotalInteractions(S) ==
    IF S = {} THEN 0
    ELSE LET x == CHOOSE y \in S : TRUE
         IN x.total_interactions + TotalInteractions(S \ {x})

\* the digits of a month code as a number
RECURSIVE MonthValue(_)
MonthValue(code) ==
    IF code = <<>> THEN 0
    ELSE 10 * MonthValue(SubSeq(code, 1, Len(code) - 1)) + (Ord(code[Len(code)]) - Ord("0"))

WrittenTable(t) ==
    LET i == CHOOSE k \in DOMAIN written : written[k].name = t IN written[i].df

WrittenNames == {written[k].name : k \in DOMAIN written}

ReferencesClosed(facts, ags, ccs, scs) ==
    \A i \in DOMAIN facts.rows :
        /\ facts.rows[i]["agent_id"] \in ColumnValues(ags, "agent_id") \cup {Unknown}
        /\ facts.rows[i]["contact_center_id"]
              \in ColumnValues(ccs, "contact_center_id") \cup {Unknown}
        /\ facts.rows[i]["category_id"] \in ColumnValues(scs, "category_id") \cup {Unknown}

----------------------------------------------------------------------------
(* C3: starting from a baseline with unique identities, after each merge   *)
(* step of a sequence of valid batches no two rows of the table share an   *)
(* identity.                                                               *)
C3_IdentitiesUnique ==
    (Merged /\ UniqueIds(base_df, "agent_id")) =>
        /\ UniqueIds(merged.df, "agent_id")
        /\ (mpc = "remerged" => UniqueIds(remerged.df, "agent_id"))

(* C4: an add row for an identity present in the baseline leaves exactly   *)
(* one row with that identity, holding the add row's values (its unset     *)
(* cells as "Unknown"), not the baseline's.                                *)
C4_UpsertExactlyOne ==
    Merged =>
        \A i \in DOMAIN Batch :
            (Batch[i]["action"] = "add"
                /\ Batch[i]["agent_id"] \in ColumnValues(base_df, "agent_id"))
            => RowsOfId(merged.df, Batch[i]["agent_id"]) = <<Filled(AsRow(Batch[i]))>>

(* C5: handle_missing runs only once every selected batch of all four      *)
(* tables has been merged, and in the interactions table it returns, and   *)
(* in the one written, every agent_id, contact_center_id and category_id   *)
(* is an identity of the merged dimension table or "Unknown".              *)
C5_ReferentialClosure ==
    /\ pc = "handle_missing" => \A t \in Tables : queue[t] = <<>>
    /\ pc \in {"timestamps", "save", "done"} =>
          /\ \A t \in Tables : queue[t] = <<>>
          /\ ReferencesClosed(interactions, agents, contact_centers, service_categories)
    /\ pc = "done" =>
          /\ WrittenNames = Tables
          /\ ReferencesClosed(WrittenTable("interactions"), WrittenTable("agents"),
                              WrittenTable("contact_centers"),
                              WrittenTable("service_categories"))

\* a run wrote an interactions table in which a reference to an agent deleted
\* by a delta batch and a reference that was unset are both "Unknown", next
\* to a reference that resolves
C5_Witness ==
    /\ pc = "done"
    /\ applied["agents"] # <<>>
    /\ "A1" \notin ColumnValues(WrittenTable("agents"), "agent_id")
    /\ \E i \in DOMAIN WrittenTable("interactions").rows :
          /\ WrittenTable("interactions").rows[i]["agent_id"] = Unknown
          /\ WrittenTable("interactions").rows[i]["category_id"] = Unknown
          /\ WrittenTable("interactions").rows[i]["contact_center_id"] = "C1"

(* C6: the total_interactions of the report rows add up to the number of   *)
(* rows of the final interactions table.                                   *)
C6_AggregationTotal ==
    pc = "reported" =>
        TotalInteractions(grouped) = Len(interactions.rows)

(* C7: for each table the batches applied are applied in non-decreasing    *)
(* order of the year-month code of their file names.                       *)
C7_Chronological ==
    pc # None =>
        \A t \in Tables : \A i, j \in DOMAIN applied[t] :
            (i < j /\ applied[t][i] # NoMonth /\ applied[t][j] # NoMonth)
                => MonthValue(applied[t][i]) <= MonthValue(applied[t][j])

(* C8: once a selected batch without an action column, or with an action   *)
(* that is none of add, update, delete after lower-casing and trimming,    *)
(* has been read, the run is aborted and has written no final table.       *)
C8_FatalWritesNothing ==
    fatal_seen => (pc = "aborted" /\ written = <<>>)

\* the offending batch belongs to the last table folded, after batches of
\* the agents table were merged
C8_Witness ==
    /\ fatal_seen
    /\ pc = "aborted"
    /\ applied["agents"] # <<>>
    /\ agents # InitialAgents
    /\ queue["interactions"] # <<>>
    /\ written = <<>>

====
